---- MODULE Spec2Model ----
(***************************************************************************)
(* Model of cmd/bootnode/main.go: the bootstrap orchestrator of the        *)
(* discovery bootnode with the optional SCION (path-aware) transport.      *)
(*                                                                         *)
(* main() is a straight-line program.  Every statement group of main is    *)
(* one action, guarded by the program counter pc.  The only concurrency is *)
(* the goroutine `go nat.Map(...)`, modelled by the variable mapTask and   *)
(* the action NatMapTask, which interleaves with the rest of main.         *)
(***************************************************************************)
EXTENDS Integers, Sequences, FiniteSets, TLC

\* ------------------------------------------------------------------------
\* Input domains (values of the command-line flags)
\* ------------------------------------------------------------------------
NatDescs     == {"none", "any", "extip:203.0.113.7", "bogus"}
GenKeyPaths  == {"", "new.key"}
KeyFiles     == {"", "node.key"}
KeyHexes     == {"", "ab12", "zz"}
NetRestricts == {"", "10.0.0.0/8", "not-a-cidr"}
ListenAddrs  == {":30301", "127.0.0.1:0", "127.0.0.1:30301", "nohost:x"}
ScionAddrs   == {"", "1-11,[10.0.0.5]:30301", "garbage"}

\* ------------------------------------------------------------------------
\* Values
\* ------------------------------------------------------------------------
NilKey      == "<nil key>"
NilUDPAddr  == [IP |-> "<nil>", Port |-> 0]
NilConn     == [local |-> NilUDPAddr]
NilSnetAddr == [I |-> 0, A |-> 0, Host |-> "<nil>"]
NilSnetConn == [laddr |-> NilSnetAddr]
NilNetlist  == "<nil netlist>"
NilNAT      == "<nil nat>"

\* the port the kernel assigns when the requested port is 0
EphemeralPort == 49152
\* the address of the router as seen from outside, when discovery finds one
RouterExtIP   == "198.51.100.9"

\* ------------------------------------------------------------------------
\* Collaborator functions that are pure in their argument
\* ------------------------------------------------------------------------

\* nat.Parse: "none" is a valid descriptor meaning no NAT (nil interface)
natParse(desc) ==
    CASE desc = "none"              -> [natm |-> NilNAT,   err |-> FALSE]
      [] desc = "any"               -> [natm |-> "any",    err |-> FALSE]
      [] desc = "extip:203.0.113.7" -> [natm |-> "extip:203.0.113.7", err |-> FALSE]
      [] OTHER                      -> [natm |-> NilNAT,   err |-> TRUE]

\* crypto.HexToECDSA
HexToECDSA(hex) ==
    IF hex = "ab12" THEN [key |-> "key(ab12)", err |-> FALSE]
                    ELSE [key |-> NilKey,      err |-> TRUE]

\* discover.PubkeyID: the fingerprint is a function of the key only
PubkeyID(key) == "id:" \o key

\* netutil.ParseNetlist
ParseNetlist(s) ==
    IF s = "10.0.0.0/8" THEN [list |-> "netlist(10.0.0.0/8)", err |-> FALSE]
                        ELSE [list |-> NilNetlist,            err |-> TRUE]

\* net.ResolveUDPAddr("udp", s)
ResolveUDPAddr(s) ==
    CASE s = ":30301"          -> [addr |-> [IP |-> "0.0.0.0",   Port |-> 30301], err |-> FALSE]
      [] s = "127.0.0.1:0"     -> [addr |-> [IP |-> "127.0.0.1", Port |-> 0],     err |-> FALSE]
      [] s = "127.0.0.1:30301" -> [addr |-> [IP |-> "127.0.0.1", Port |-> 30301], err |-> FALSE]
      [] OTHER                 -> [addr |-> NilUDPAddr,                           err |-> TRUE]

\* the local address of a socket bound to a: port 0 becomes a kernel-chosen port
BoundAddr(a) == [IP |-> a.IP, Port |-> IF a.Port = 0 THEN EphemeralPort ELSE a.Port]

\* net.IP.IsLoopback
IsLoopback(ip) == ip = "127.0.0.1"

\* snet.AddrFromString
AddrFromString(s) ==
    IF s = "1-11,[10.0.0.5]:30301"
    THEN [addr |-> [I |-> 1, A |-> 11, Host |-> "[10.0.0.5]:30301"], err |-> FALSE]
    ELSE [addr |-> NilSnetAddr, err |-> TRUE]

\* strconv.Itoa for the non-negative numbers of the model
Digit(d) == CASE d = 0 -> "0" [] d = 1 -> "1" [] d = 2 -> "2" [] d = 3 -> "3"
              [] d = 4 -> "4" [] d = 5 -> "5" [] d = 6 -> "6" [] d = 7 -> "7"
              [] d = 8 -> "8" [] d = 9 -> "9"
RECURSIVE Itoa(_)
Itoa(n) == IF n < 10 THEN Digit(n) ELSE Itoa(n \div 10) \o Digit(n % 10)

\* (*snet.Addr).String on a non-nil address
SnetAddrString(a) == Itoa(a.I) \o "-" \o Itoa(a.A) \o "," \o a.Host

\* the control-socket paths main derives from the address
SciondPath(a)  == "/run/shm/sciond/sd" \o Itoa(a.I) \o "-" \o Itoa(a.A) \o ".sock"
DispatcherPath == "/run/shm/dispatcher/default.sock"

\* ------------------------------------------------------------------------
\* State
\* ------------------------------------------------------------------------
VARIABLES
    \* flags (fixed by flag.Parse)
    listenAddr, genKey, writeAddr, nodeKeyFile, nodeKeyHex, natdesc,
    netrestrict, runv5, scionAddrStr,
    \* locals of main
    natm, nodeKey, restrictList, addr, conn, scionAddr, sconn, realaddr, cfg,
    \* control: position of main, and how the process ended
    pc, fatalMsg,
    \* the goroutine go nat.Map(...)
    mapTask,
    \* the engine start calls main made, with their arguments
    engines,
    \* the outside world as main changed it
    savedKeys, stdout, snetNetwork,
    \* history: the collaborator calls in the order main issued them, and
    \* those of them that returned an error
    calls, failed

flags   == <<listenAddr, genKey, writeAddr, nodeKeyFile, nodeKeyHex, natdesc,
             netrestrict, runv5, scionAddrStr>>
locals  == <<natm, nodeKey, restrictList, addr, conn, scionAddr, sconn, realaddr, cfg>>
world   == <<savedKeys, stdout, snetNetwork>>
mainvars == <<locals, pc, fatalMsg, engines, world, calls, failed>>
vars    == <<flags, locals, pc, fatalMsg, mapTask, engines, world, calls, failed>>

NilCfg == [PrivateKey |-> NilKey, AnnounceAddr |-> NilUDPAddr,
           AnnounceAddrSCION |-> "", NetRestrict |-> NilNetlist]

Init ==
    /\ listenAddr   \in ListenAddrs
    /\ genKey       \in GenKeyPaths
    /\ writeAddr    \in BOOLEAN
    /\ nodeKeyFile  \in KeyFiles
    /\ nodeKeyHex   \in KeyHexes
    /\ natdesc      \in NatDescs
    /\ netrestrict  \in NetRestricts
    /\ runv5        \in BOOLEAN
    /\ scionAddrStr \in ScionAddrs
    /\ natm = NilNAT
    /\ nodeKey = NilKey
    /\ restrictList = NilNetlist
    /\ addr = NilUDPAddr
    /\ conn = NilConn
    /\ scionAddr = NilSnetAddr
    /\ sconn = NilSnetConn
    /\ realaddr = NilUDPAddr
    /\ cfg = NilCfg
    /\ pc = "natparse"
    /\ fatalMsg = ""
    /\ mapTask = "none"
    /\ engines = <<>>
    /\ savedKeys = {}
    /\ stdout = <<>>
    /\ snetNetwork = "uninitialized"
    /\ calls = <<>>
    /\ failed = {}

\* utils.Fatalf: report and exit non-zero
Fatalf(msg) == pc' = "fatal" /\ fatalMsg' = msg

\* a collaborator call is issued; it returned an error iff err
Call(fn, err) ==
    /\ calls' = Append(calls, fn)
    /\ failed' = IF err THEN failed \cup {fn} ELSE failed

\* ------------------------------------------------------------------------
\* main, lines 67-70: the NAT descriptor is parsed first
\* ------------------------------------------------------------------------
\* faulty variant: a malformed descriptor is not rejected here; startup goes
\* on without NAT
NatParse_ErrorIgnored ==
    /\ pc = "natparse"
    /\ LET r == natParse(natdesc) IN
        /\ natm' = r.natm
        /\ Call("nat.Parse", r.err)
        /\ pc' = "identity" /\ fatalMsg' = fatalMsg
    /\ UNCHANGED <<flags, nodeKey, restrictList, addr, conn, scionAddr, sconn,
                   realaddr, cfg, mapTask, engines, world>>

NatParse ==
    /\ pc = "natparse"
    /\ LET r == natParse(natdesc) IN
        /\ natm' = r.natm
        /\ Call("nat.Parse", r.err)
        /\ IF r.err THEN Fatalf("-nat") ELSE pc' = "identity" /\ fatalMsg' = fatalMsg
    /\ UNCHANGED <<flags, nodeKey, restrictList, addr, conn, scionAddr, sconn,
                   realaddr, cfg, mapTask, engines, world>>

\* ------------------------------------------------------------------------
\* main, lines 71-93: the identity switch; the first true case is taken
\* ------------------------------------------------------------------------
\* faulty variants of the switch
\* the missing-key test comes before the generate case
IdentityCase_MissingFirst ==
    CASE nodeKeyFile = "" /\ nodeKeyHex = ""   -> "missing"
      [] genKey /= ""                          -> "generate"
      [] nodeKeyFile /= "" /\ nodeKeyHex /= "" -> "conflict"
      [] nodeKeyFile /= ""                     -> "file"
      [] OTHER                                 -> "hex"

\* the mutual-exclusion case is missing: the key file wins
IdentityCase_NoConflictCase ==
    CASE genKey /= ""                          -> "generate"
      [] nodeKeyFile = "" /\ nodeKeyHex = ""   -> "missing"
      [] nodeKeyFile /= ""                     -> "file"
      [] OTHER                                 -> "hex"

\* the mutual-exclusion test comes before the generate case
IdentityCase_ConflictFirst ==
    CASE nodeKeyFile /= "" /\ nodeKeyHex /= "" -> "conflict"
      [] genKey /= ""                          -> "generate"
      [] nodeKeyFile = "" /\ nodeKeyHex = ""   -> "missing"
      [] nodeKeyFile /= ""                     -> "file"
      [] OTHER                                 -> "hex"

IdentityCase ==
    CASE genKey /= ""                          -> "generate"
      [] nodeKeyFile = "" /\ nodeKeyHex = ""   -> "missing"
      [] nodeKeyFile /= "" /\ nodeKeyHex /= "" -> "conflict"
      [] nodeKeyFile /= ""                     -> "file"
      [] OTHER                                 -> "hex"

\* case *genKey != "": generate, save, return
GenerateKey ==
    /\ pc = "identity"
    /\ IdentityCase = "generate"
    /\ \E genErr \in BOOLEAN, saveErr \in BOOLEAN :
         IF genErr
         THEN /\ Call("crypto.GenerateKey", TRUE)
              /\ Fatalf("could not generate key")
              /\ UNCHANGED <<nodeKey, savedKeys>>
         ELSE /\ nodeKey' = "key(fresh)"
              /\ IF saveErr
                 THEN /\ calls' = calls \o <<"crypto.GenerateKey", "crypto.SaveECDSA">>
                      /\ failed' = failed \cup {"crypto.SaveECDSA"}
                      /\ Fatalf("SaveECDSA")
                      /\ UNCHANGED savedKeys
                 ELSE /\ calls' = calls \o <<"crypto.GenerateKey", "crypto.SaveECDSA">>
                      /\ failed' = failed
                      /\ savedKeys' = savedKeys \cup {<<genKey, "key(fresh)">>}
                      /\ pc' = "exit0"
                      /\ fatalMsg' = fatalMsg
    /\ UNCHANGED <<flags, natm, restrictList, addr, conn, scionAddr, sconn,
                   realaddr, cfg, mapTask, engines, stdout, snetNetwork>>

\* case *nodeKeyFile == "" && *nodeKeyHex == ""
MissingKey ==
    /\ pc = "identity"
    /\ IdentityCase = "missing"
    /\ Fatalf("Use -nodekey or -nodekeyhex to specify a private key")
    /\ UNCHANGED <<flags, locals, mapTask, engines, world, calls, failed>>

\* case *nodeKeyFile != "" && *nodeKeyHex != ""
ConflictingKey ==
    /\ pc = "identity"
    /\ IdentityCase = "conflict"
    /\ Fatalf("Options -nodekey and -nodekeyhex are mutually exclusive")
    /\ UNCHANGED <<flags, locals, mapTask, engines, world, calls, failed>>

\* case *nodeKeyFile != "": the file may be unreadable or malformed
LoadKeyFile ==
    /\ pc = "identity"
    /\ IdentityCase = "file"
    /\ \E err \in BOOLEAN :
        /\ Call("crypto.LoadECDSA", err)
        /\ nodeKey' = IF err THEN NilKey ELSE "key(" \o nodeKeyFile \o ")"
        /\ IF err THEN Fatalf("-nodekey") ELSE pc' = "writeaddr" /\ fatalMsg' = fatalMsg
    /\ UNCHANGED <<flags, natm, restrictList, addr, conn, scionAddr, sconn,
                   realaddr, cfg, mapTask, engines, world>>

\* case *nodeKeyHex != ""
LoadKeyHex ==
    /\ pc = "identity"
    /\ IdentityCase = "hex"
    /\ LET r == HexToECDSA(nodeKeyHex) IN
        /\ Call("crypto.HexToECDSA", r.err)
        /\ nodeKey' = r.key
        /\ IF r.err THEN Fatalf("-nodekeyhex") ELSE pc' = "writeaddr" /\ fatalMsg' = fatalMsg
    /\ UNCHANGED <<flags, natm, restrictList, addr, conn, scionAddr, sconn,
                   realaddr, cfg, mapTask, engines, world>>

\* ------------------------------------------------------------------------
\* main, lines 95-98: -writeaddress prints the fingerprint and exits 0
\* ------------------------------------------------------------------------
\* faulty variant: the fingerprint is printed but the process does not exit
WriteAddress_NoExit ==
    /\ pc = "writeaddr"
    /\ IF writeAddr
       THEN /\ stdout' = Append(stdout, PubkeyID(nodeKey))
            /\ Call("discover.PubkeyID", FALSE)
            /\ pc' = "netrestrict"
       ELSE /\ pc' = "netrestrict"
            /\ UNCHANGED <<stdout, calls, failed>>
    /\ UNCHANGED <<flags, locals, fatalMsg, mapTask, engines, savedKeys, snetNetwork>>

WriteAddress ==
    /\ pc = "writeaddr"
    /\ IF writeAddr
       THEN /\ stdout' = Append(stdout, PubkeyID(nodeKey))
            /\ Call("discover.PubkeyID", FALSE)
            /\ pc' = "exit0"
       ELSE /\ pc' = "netrestrict"
            /\ UNCHANGED <<stdout, calls, failed>>
    /\ UNCHANGED <<flags, locals, fatalMsg, mapTask, engines, savedKeys, snetNetwork>>

\* ------------------------------------------------------------------------
\* main, lines 100-106: the netlist is parsed only when the flag is set
\* ------------------------------------------------------------------------
\* faulty variant: a malformed netlist falls back to no restriction
NetRestrict_FallsBack ==
    /\ pc = "netrestrict"
    /\ IF netrestrict /= ""
       THEN LET r == ParseNetlist(netrestrict) IN
            /\ restrictList' = r.list
            /\ Call("netutil.ParseNetlist", r.err)
            /\ pc' = "resolve" /\ fatalMsg' = fatalMsg
       ELSE /\ pc' = "resolve"
            /\ UNCHANGED <<restrictList, calls, failed, fatalMsg>>
    /\ UNCHANGED <<flags, natm, nodeKey, addr, conn, scionAddr, sconn,
                   realaddr, cfg, mapTask, engines, world>>

NetRestrict ==
    /\ pc = "netrestrict"
    /\ IF netrestrict /= ""
       THEN LET r == ParseNetlist(netrestrict) IN
            /\ restrictList' = r.list
            /\ Call("netutil.ParseNetlist", r.err)
            /\ IF r.err THEN Fatalf("-netrestrict")
                        ELSE pc' = "resolve" /\ fatalMsg' = fatalMsg
       ELSE /\ pc' = "resolve"
            /\ UNCHANGED <<restrictList, calls, failed, fatalMsg>>
    /\ UNCHANGED <<flags, natm, nodeKey, addr, conn, scionAddr, sconn,
                   realaddr, cfg, mapTask, engines, world>>

\* ------------------------------------------------------------------------
\* main, lines 108-118: resolve the listen address and bind the UDP socket
\* ------------------------------------------------------------------------
ResolveAddr ==
    /\ pc = "resolve"
    /\ LET r == ResolveUDPAddr(listenAddr) IN
        /\ addr' = r.addr
        /\ Call("net.ResolveUDPAddr", r.err)
        /\ IF r.err THEN Fatalf("-ResolveUDPAddr")
                    ELSE pc' = "listen" /\ fatalMsg' = fatalMsg
    /\ UNCHANGED <<flags, natm, nodeKey, restrictList, conn, scionAddr, sconn,
                   realaddr, cfg, mapTask, engines, world>>

\* the bind may fail (address in use, permission)
ListenUDP ==
    /\ pc = "listen"
    /\ \E err \in BOOLEAN :
        /\ Call("net.ListenUDP", err)
        /\ conn' = IF err THEN NilConn ELSE [local |-> BoundAddr(addr)]
        /\ IF err THEN Fatalf("-ListenUDP")
                  ELSE pc' = "scion" /\ fatalMsg' = fatalMsg
    /\ UNCHANGED <<flags, natm, nodeKey, restrictList, addr, scionAddr, sconn,
                   realaddr, cfg, mapTask, engines, world>>

\* ------------------------------------------------------------------------
\* main, lines 120-138: the SCION socket, only when -scion is given
\* ------------------------------------------------------------------------
\* faulty variant: a malformed address is reported but startup goes on
\* without the SCION socket
ScionParse_ErrorNotFatal ==
    /\ pc = "scion"
    /\ IF scionAddrStr /= ""
       THEN LET r == AddrFromString(scionAddrStr) IN
            /\ scionAddr' = r.addr
            /\ Call("snet.AddrFromString", r.err)
            /\ pc' = IF r.err THEN "natattach" ELSE "scioninit"
            /\ fatalMsg' = fatalMsg
       ELSE /\ pc' = "natattach"
            /\ UNCHANGED <<scionAddr, calls, failed, fatalMsg>>
    /\ UNCHANGED <<flags, natm, nodeKey, restrictList, addr, conn, sconn,
                   realaddr, cfg, mapTask, engines, world>>

\* lines 121-126: parse the address
ScionParse ==
    /\ pc = "scion"
    /\ IF scionAddrStr /= ""
       THEN LET r == AddrFromString(scionAddrStr) IN
            /\ scionAddr' = r.addr
            /\ Call("snet.AddrFromString", r.err)
            /\ IF r.err THEN Fatalf("Scion address needs to be specified with -scion")
                        ELSE pc' = "scioninit" /\ fatalMsg' = fatalMsg
       ELSE /\ pc' = "natattach"
            /\ UNCHANGED <<scionAddr, calls, failed, fatalMsg>>
    /\ UNCHANGED <<flags, natm, nodeKey, restrictList, addr, conn, sconn,
                   realaddr, cfg, mapTask, engines, world>>

\* lines 127-129: snet.Init; its error result is not looked at
ScionInit ==
    /\ pc = "scioninit"
    /\ \E err \in BOOLEAN :
        /\ Call("snet.Init", err)
        /\ snetNetwork' = IF err THEN snetNetwork
                          ELSE SciondPath(scionAddr) \o "|" \o DispatcherPath
    /\ pc' = "scionlisten"
    /\ UNCHANGED <<flags, locals, fatalMsg, mapTask, engines, savedKeys, stdout>>

\* faulty variant: a failed bind is reported but startup goes on
ScionListen_ErrorNotFatal ==
    /\ pc = "scionlisten"
    /\ \E err \in BOOLEAN :
        /\ Call("snet.ListenSCION", err)
        /\ sconn' = IF err THEN NilSnetConn ELSE [laddr |-> scionAddr]
        /\ pc' = "natattach" /\ fatalMsg' = fatalMsg
    /\ UNCHANGED <<flags, natm, nodeKey, restrictList, addr, conn, scionAddr,
                   realaddr, cfg, mapTask, engines, world>>

\* lines 131-137: snet.ListenSCION
ScionListen ==
    /\ pc = "scionlisten"
    /\ \E err \in BOOLEAN :
        /\ Call("snet.ListenSCION", err)
        /\ sconn' = IF err THEN NilSnetConn ELSE [laddr |-> scionAddr]
        /\ IF err THEN Fatalf("-SCION ListenUDP")
                  ELSE pc' = "natattach" /\ fatalMsg' = fatalMsg
    /\ UNCHANGED <<flags, natm, nodeKey, restrictList, addr, conn, scionAddr,
                   realaddr, cfg, mapTask, engines, world>>

\* ------------------------------------------------------------------------
\* main, lines 140-149: NAT
\* ------------------------------------------------------------------------
\* faulty variant: the loopback test is missing
SpawnsMap_NoLoopbackTest(nat, local) == nat /= NilNAT

\* line 142: is the port mapping goroutine started?
SpawnsMap(nat, local) == nat /= NilNAT /\ ~IsLoopback(local.IP)

\* faulty variant: the external IP lookup is left out
NatSpawn_SkipsLookup ==
    /\ pc = "natattach"
    /\ realaddr' = conn.local
    /\ IF SpawnsMap(natm, conn.local)
       THEN mapTask' = "running" /\ Call("nat.Map", FALSE)
       ELSE UNCHANGED <<mapTask, calls, failed>>
    /\ pc' = "dispatch"
    /\ UNCHANGED <<flags, natm, nodeKey, restrictList, addr, conn, scionAddr,
                   sconn, cfg, fatalMsg, engines, world>>

\* lines 140-144: realaddr is the bound address; go nat.Map(...)
NatSpawn ==
    /\ pc = "natattach"
    /\ realaddr' = conn.local
    /\ IF SpawnsMap(natm, conn.local)
       THEN mapTask' = "running" /\ Call("nat.Map", FALSE)
       ELSE UNCHANGED <<mapTask, calls, failed>>
    /\ pc' = IF natm /= NilNAT THEN "extip" ELSE "dispatch"
    /\ UNCHANGED <<flags, natm, nodeKey, restrictList, addr, conn, scionAddr,
                   sconn, cfg, fatalMsg, engines, world>>

\* natm.ExternalIP(): a fixed external IP always answers, discovery may fail
ExternalIPResults(nat) ==
    IF nat = "extip:203.0.113.7"
    THEN {[ext |-> "203.0.113.7", err |-> FALSE]}
    ELSE {[ext |-> RouterExtIP, err |-> FALSE], [ext |-> "<nil>", err |-> TRUE]}

\* faulty variant: the new address is built without the bound port
Announce_PortDropped(local, r) == IF r.err THEN local ELSE [IP |-> r.ext, Port |-> 0]

\* line 147: the announce address after ExternalIP returned r
Announce(local, r) == IF r.err THEN local ELSE [IP |-> r.ext, Port |-> local.Port]

\* lines 146-148: the synchronous external IP lookup
NatExternalIP ==
    /\ pc = "extip"
    /\ \E r \in ExternalIPResults(natm) :
        /\ Call("nat.ExternalIP", r.err)
        /\ realaddr' = Announce(realaddr, r)
    /\ pc' = "dispatch"
    /\ UNCHANGED <<flags, natm, nodeKey, restrictList, addr, conn, scionAddr,
                   sconn, cfg, fatalMsg, mapTask, engines, world>>

\* is the process still running?
Alive == pc \notin {"exit0", "fatal", "panic"}

\* faulty variant: a failed mapping request is fatal
NatMapTask_FailureFatal ==
    /\ mapTask = "running"
    /\ Alive
    /\ \E res \in {"mapped", "failed"} :
        /\ mapTask' = res
        /\ IF res = "failed" THEN Fatalf("nat.Map") ELSE UNCHANGED <<pc, fatalMsg>>
    /\ UNCHANGED <<flags, locals, engines, world, calls, failed>>

\* the goroutine nat.Map: the mapping request succeeds or fails; main never
\* reads its result
NatMapTask ==
    /\ mapTask = "running"
    /\ Alive
    /\ \E res \in {"mapped", "failed"} : mapTask' = res
    /\ UNCHANGED <<flags, mainvars>>

\* ------------------------------------------------------------------------
\* main, lines 151-176: start one discovery engine
\* ------------------------------------------------------------------------
EngineCall(fn, c, sc, key, announce, announceSCION, netid, restrict, err) ==
    [fn |-> fn, conn |-> c, sconn |-> sc, PrivateKey |-> key,
     AnnounceAddr |-> announce, AnnounceAddrSCION |-> announceSCION,
     netid |-> netid, NetRestrict |-> restrict, err |-> err]

\* faulty variant: the test of the mode flag is inverted
TopicMode_Inverted == ~runv5

\* line 151
TopicMode == runv5

\* faulty variant: the topic engine is handed the SCION socket as well
StartTopic_HandsSconn ==
    /\ pc = "dispatch"
    /\ TopicMode
    /\ \E err \in BOOLEAN :
        /\ Call("discv5.ListenUDP", err)
        /\ engines' = Append(engines,
              EngineCall("discv5.ListenUDP", conn, sconn, nodeKey, realaddr,
                         "", "", restrictList, err))
        /\ IF err THEN Fatalf("discv5.ListenUDP")
                  ELSE pc' = "select" /\ fatalMsg' = fatalMsg
    /\ UNCHANGED <<flags, locals, mapTask, world>>

\* faulty variant: the error of the engine start is not looked at
StartTopic_ErrorIgnored ==
    /\ pc = "dispatch"
    /\ TopicMode
    /\ \E err \in BOOLEAN :
        /\ Call("discv5.ListenUDP", err)
        /\ engines' = Append(engines,
              EngineCall("discv5.ListenUDP", conn, NilSnetConn, nodeKey, realaddr,
                         "", "", restrictList, err))
        /\ pc' = "select" /\ fatalMsg' = fatalMsg
    /\ UNCHANGED <<flags, locals, mapTask, world>>

\* lines 152-155: discv5.ListenUDP
StartTopic ==
    /\ pc = "dispatch"
    /\ TopicMode
    /\ \E err \in BOOLEAN :
        /\ Call("discv5.ListenUDP", err)
        /\ engines' = Append(engines,
              EngineCall("discv5.ListenUDP", conn, NilSnetConn, nodeKey, realaddr,
                         "", "", restrictList, err))
        /\ IF err THEN Fatalf("discv5.ListenUDP")
                  ELSE pc' = "select" /\ fatalMsg' = fatalMsg
    /\ UNCHANGED <<flags, locals, mapTask, world>>

\* (*snet.Addr).String as main calls it at line 160.  scionAddr is nil when
\* -scion was not given; the method then either handles the nil receiver
\* (printing "<nil>") or dereferences it (panic).
NilString == "<nil>"
ScionAnnounceResults(a) ==
    IF a /= NilSnetAddr
    THEN {[str |-> SnetAddrString(a), panic |-> FALSE]}
    ELSE {[str |-> NilString, panic |-> FALSE], [str |-> "", panic |-> TRUE]}

\* lines 157-162: the configuration record of the legacy engine
BuildCfg ==
    /\ pc = "dispatch"
    /\ ~TopicMode
    /\ \E r \in ScionAnnounceResults(scionAddr) :
         IF r.panic
         THEN /\ pc' = "panic"
              /\ cfg' = cfg
         ELSE /\ pc' = "legacy"
              /\ cfg' = [PrivateKey |-> nodeKey, AnnounceAddr |-> realaddr,
                         AnnounceAddrSCION |-> r.str, NetRestrict |-> restrictList]
    /\ Call("snet.Addr.String", FALSE)
    /\ UNCHANGED <<flags, natm, nodeKey, restrictList, addr, conn, scionAddr,
                   sconn, realaddr, fatalMsg, mapTask, engines, world>>

\* faulty variant: the SCION start path is taken when the socket is missing
UseSCION_Negated(a, sc) == a /= NilSnetAddr /\ sc = NilSnetConn

\* line 164
UseSCION(a, sc) == a /= NilSnetAddr /\ sc /= NilSnetConn

\* lines 165-169: discover.ListenUDPSCION(conn, sconn, cfg)
StartLegacySCION ==
    /\ pc = "legacy"
    /\ UseSCION(scionAddr, sconn)
    /\ \E err \in BOOLEAN :
        /\ Call("discover.ListenUDPSCION", err)
        /\ engines' = Append(engines,
              EngineCall("discover.ListenUDPSCION", conn, sconn, cfg.PrivateKey,
                         cfg.AnnounceAddr, cfg.AnnounceAddrSCION, "",
                         cfg.NetRestrict, err))
        /\ IF err THEN Fatalf("discover.ListenUDPSCION")
                  ELSE pc' = "select" /\ fatalMsg' = fatalMsg
    /\ UNCHANGED <<flags, locals, mapTask, world>>

\* lines 170-175: discover.ListenUDP(conn, cfg)
StartLegacy ==
    /\ pc = "legacy"
    /\ ~UseSCION(scionAddr, sconn)
    /\ \E err \in BOOLEAN :
        /\ Call("discover.ListenUDP", err)
        /\ engines' = Append(engines,
              EngineCall("discover.ListenUDP", conn, NilSnetConn, cfg.PrivateKey,
                         cfg.AnnounceAddr, cfg.AnnounceAddrSCION, "",
                         cfg.NetRestrict, err))
        /\ IF err THEN Fatalf("discover.ListenUDP")
                  ELSE pc' = "select" /\ fatalMsg' = fatalMsg
    /\ UNCHANGED <<flags, locals, mapTask, world>>

\* line 178: select {} has no case; main stays at pc = "select" for ever

Next ==
    \/ NatParse
    \/ GenerateKey
    \/ MissingKey
    \/ ConflictingKey
    \/ LoadKeyFile
    \/ LoadKeyHex
    \/ WriteAddress
    \/ NetRestrict
    \/ ResolveAddr
    \/ ListenUDP
    \/ ScionParse
    \/ ScionInit
    \/ ScionListen
    \/ NatSpawn
    \/ NatExternalIP
    \/ NatMapTask
    \/ StartTopic
    \/ BuildCfg
    \/ StartLegacySCION
    \/ StartLegacy

Spec == Init /\ [][Next]_vars

\* ------------------------------------------------------------------------
\* Vocabulary of the properties
\* ------------------------------------------------------------------------
Called(fn)    == \E i \in 1..Len(calls) : calls[i] = fn
CallSet       == {calls[i] : i \in 1..Len(calls)}
EngineFns     == {"discv5.ListenUDP", "discover.ListenUDP", "discover.ListenUDPSCION"}
LegacyFns     == {"discover.ListenUDP", "discover.ListenUDPSCION"}
SocketFns     == {"net.ListenUDP", "snet.ListenSCION"}
AltFns        == {"snet.AddrFromString", "snet.Init", "snet.ListenSCION"}
NatFns        == {"nat.Map", "nat.ExternalIP"}
Exited        == pc \in {"exit0", "fatal", "panic"}

\* the malformed configuration inputs
BadNat        == natdesc = "bogus"
BadIdentity   == genKey = "" /\ (nodeKeyFile = "" <=> nodeKeyHex = "")
BadNetlist    == netrestrict = "not-a-cidr"
BadAlt        == scionAddrStr = "garbage"
ConfigMsgs    == {"-nat", "Use -nodekey or -nodekeyhex to specify a private key",
                  "Options -nodekey and -nodekeyhex are mutually exclusive",
                  "-netrestrict", "Scion address needs to be specified with -scion"}

\* ------------------------------------------------------------------------
\* C1
\* ------------------------------------------------------------------------
\* C1 as stated: with any malformed configuration input (identity source,
\* netlist, NAT descriptor, alternate-network address) the process aborts
\* non-zero and the primary datagram socket is never bound.  (Stated here
\* for the runs that take neither exit-success short cut.)
C1_AsStated ==
    (genKey = "" /\ ~writeAddr /\ (BadNat \/ BadIdentity \/ BadNetlist \/ BadAlt))
        => /\ pc \notin {"exit0", "select", "panic"}
           /\ ~Called("net.ListenUDP")
           /\ conn = NilConn

\* C1 amended: a malformed NAT descriptor or identity source aborts the run
\* non-zero before any socket is opened.  A malformed netlist never lets a
\* socket be opened: the run aborts non-zero, unless it ends first in one of
\* the two exit-success short cuts (generate key, write address).  A
\* malformed alternate-network address is only detected after the primary
\* socket was bound: the abort with that error happens with the primary
\* socket open, no alternate socket is ever opened and no engine is started.
C1_MalformedConfigAborts ==
    /\ (BadNat \/ BadIdentity) =>
          /\ pc \in {"natparse", "identity", "fatal"}
          /\ pc = "fatal" => fatalMsg \in ConfigMsgs
          /\ CallSet \cap SocketFns = {}
          /\ conn = NilConn /\ sconn = NilSnetConn
    /\ BadNetlist =>
          /\ pc \notin {"select", "panic"}
          /\ pc = "exit0" => (genKey /= "" \/ writeAddr)
          /\ CallSet \cap SocketFns = {}
          /\ conn = NilConn /\ sconn = NilSnetConn
    /\ BadAlt =>
          /\ pc \notin {"select", "panic", "scioninit", "scionlisten",
                        "natattach", "extip", "dispatch", "legacy"}
          /\ pc = "exit0" => (genKey /= "" \/ writeAddr)
          /\ fatalMsg = "Scion address needs to be specified with -scion"
                => (pc = "fatal" /\ conn /= NilConn /\ Called("net.ListenUDP"))
          /\ sconn = NilSnetConn /\ ~Called("snet.ListenSCION")
          /\ engines = <<>>

\* the malformed alternate address was rejected, with the primary socket bound
C1_Witness ==
    /\ BadAlt
    /\ pc = "fatal"
    /\ fatalMsg = "Scion address needs to be specified with -scion"
    /\ conn /= NilConn

\* ------------------------------------------------------------------------
\* C2
\* ------------------------------------------------------------------------
\* C2 as stated: with a generate-key path, whatever the other options are,
\* the run never aborts, it ends in exit-success with the key saved, and no
\* other component runs.
C2_AsStated ==
    genKey /= "" =>
        /\ pc \in {"natparse", "identity", "exit0"}
        /\ pc = "exit0" => <<genKey, nodeKey>> \in savedKeys
        /\ stdout = <<>> /\ engines = <<>> /\ mapTask = "none"
        /\ CallSet \subseteq {"nat.Parse", "crypto.GenerateKey", "crypto.SaveECDSA"}

\* C2 amended: with a generate-key path and a well-formed NAT descriptor,
\* whatever the other options are, the run generates a key, saves it and ends
\* in exit-success, unless generating or saving fails, which is fatal; a
\* malformed NAT descriptor aborts the run before the key is generated.  In
\* every such run no fingerprint is printed, no netlist is parsed, no socket
\* is opened, no port mapping or external-IP call is made and no engine is
\* started.
C2_GenerateKeyShortCircuits ==
    genKey /= "" =>
        /\ pc \in {"natparse", "identity", "exit0", "fatal"}
        /\ pc = "fatal" =>
              \/ BadNat /\ fatalMsg = "-nat" /\ ~Called("crypto.GenerateKey")
              \/ ~BadNat /\ failed \cap {"crypto.GenerateKey", "crypto.SaveECDSA"} /= {}
        /\ pc = "exit0" =>
              /\ ~BadNat
              /\ nodeKey /= NilKey
              /\ savedKeys = {<<genKey, nodeKey>>}
              /\ calls = <<"nat.Parse", "crypto.GenerateKey", "crypto.SaveECDSA">>
        /\ stdout = <<>> /\ engines = <<>> /\ mapTask = "none"
        /\ restrictList = NilNetlist /\ conn = NilConn /\ sconn = NilSnetConn
        /\ CallSet \subseteq {"nat.Parse", "crypto.GenerateKey", "crypto.SaveECDSA"}

\* a key was generated and saved although every other option was set too
C2_Witness ==
    /\ genKey /= "" /\ pc = "exit0"
    /\ savedKeys /= {}
    /\ nodeKeyFile /= "" /\ nodeKeyHex /= "" /\ writeAddr
    /\ netrestrict = "not-a-cidr" /\ scionAddrStr = "garbage" /\ natdesc = "any"

\* ------------------------------------------------------------------------
\* C3
\* ------------------------------------------------------------------------
OneKeySource == nodeKeyFile = "" <=> nodeKeyHex /= ""
\* the key material of the one chosen source is valid: the hex string decodes,
\* or the key file was read without error
KeyMaterialValid ==
    /\ nodeKeyHex /= "" => nodeKeyHex = "ab12"
    /\ nodeKeyFile /= "" => "crypto.LoadECDSA" \notin failed
\* the run went on past the identity switch
PastIdentity == pc \notin {"natparse", "identity", "fatal", "exit0"}
                  \/ (pc \in {"fatal", "exit0"} /\ nodeKey /= NilKey)

\* C3 as stated: without key generation, both or neither key source aborts
\* before the netlist, the sockets, NAT and the engines; exactly one source
\* with valid key material never aborts without the identity loaded.
C3_AsStated ==
    genKey = "" =>
        /\ ~OneKeySource =>
              /\ pc \in {"natparse", "identity", "fatal"}
              /\ CallSet \subseteq {"nat.Parse"}
        /\ (OneKeySource /\ KeyMaterialValid) =>
              ~(pc = "fatal" /\ nodeKey = NilKey)

\* C3 amended: without key generation, both or neither key source aborts
\* with a fatal configuration error before the netlist, the sockets, NAT and
\* the engines; exactly one source with valid key material and a well-formed
\* NAT descriptor (which is parsed before the identity) loads the identity
\* and startup goes on to the write-address step.
C3_IdentitySourceChecked ==
    genKey = "" =>
        /\ ~OneKeySource =>
              /\ pc \in {"natparse", "identity", "fatal"}
              /\ pc = "fatal" => fatalMsg \in ConfigMsgs
              /\ nodeKey = NilKey
              /\ CallSet \subseteq {"nat.Parse"}
              /\ restrictList = NilNetlist /\ conn = NilConn /\ sconn = NilSnetConn
              /\ mapTask = "none" /\ engines = <<>>
        /\ (OneKeySource /\ KeyMaterialValid /\ ~BadNat) =>
              /\ ~(pc = "fatal" /\ nodeKey = NilKey)
              /\ pc \notin {"natparse", "identity"} =>
                    nodeKey = IF nodeKeyHex /= "" THEN "key(ab12)"
                              ELSE "key(" \o nodeKeyFile \o ")"

\* the identity was loaded from the hex string and startup went on
C3_Witness ==
    /\ genKey = "" /\ nodeKeyFile = "" /\ nodeKeyHex = "ab12"
    /\ pc = "netrestrict"
    /\ nodeKey = "key(ab12)"

\* ------------------------------------------------------------------------
\* C4
\* ------------------------------------------------------------------------
SourcesChosen ==
    (IF genKey /= "" THEN {"generate"} ELSE {})
      \cup (IF nodeKeyFile /= "" THEN {"file"} ELSE {})
      \cup (IF nodeKeyHex /= "" THEN {"hex"} ELSE {})

\* C4 as stated: a run with more than one identity source, or none, ends in
\* a configuration error: it never gets past the identity switch.
C4_AsStated ==
    Cardinality(SourcesChosen) /= 1 => pc \in {"natparse", "identity", "fatal"}

\* C4 amended: when key generation is not selected, exactly one of the key
\* file and the key hex string must be chosen, and choosing both or neither
\* ends in a configuration error.  When key generation is selected, the key
\* file and the key hex string are ignored: the run is never rejected as
\* conflicting or missing an identity source and loads neither of them.
C4_ExactlyOneLoadSource ==
    /\ (genKey = "" /\ Cardinality(SourcesChosen) /= 1) =>
          /\ pc \in {"natparse", "identity", "fatal"}
          /\ pc = "fatal" => fatalMsg \in ConfigMsgs
    /\ genKey /= "" =>
          /\ fatalMsg \notin {"Use -nodekey or -nodekeyhex to specify a private key",
                              "Options -nodekey and -nodekeyhex are mutually exclusive",
                              "-nodekey", "-nodekeyhex"}
          /\ ~Called("crypto.LoadECDSA") /\ ~Called("crypto.HexToECDSA")
          /\ nodeKey \in {NilKey, "key(fresh)"}

\* key generation together with a key file and a key hex string exits 0
C4_Witness ==
    /\ Cardinality(SourcesChosen) = 3
    /\ pc = "exit0"
    /\ savedKeys /= {}

\* ------------------------------------------------------------------------
\* C5
\* ------------------------------------------------------------------------
EngineStartMsgs == {"discv5.ListenUDP", "discover.ListenUDP", "discover.ListenUDPSCION"}

C6_Inputs ==
    /\ ~runv5 /\ genKey = "" /\ ~writeAddr
    /\ nodeKeyFile = "" /\ nodeKeyHex = "ab12"
    /\ scionAddrStr = "" /\ natdesc = "none" /\ netrestrict = ""

\* C6: in LegacyMode with a valid identity, no alternate-network address, NAT
\* none and an empty netlist, no alternate-transport step is attempted, one
\* datagram socket is opened, the legacy engine is started with that single
\* socket and the socket's bound address as announce address, and the run
\* blocks: it never exits, unless binding or the engine start itself fails.
C6_LegacyPlainRun ==
    C6_Inputs =>
        /\ CallSet \cap AltFns = {}
        /\ pc \notin {"exit0", "panic"}
        /\ pc = "fatal" => failed /= {}
        /\ Cardinality(CallSet \cap SocketFns) <= 1
        /\ pc = "select" =>
              /\ conn /= NilConn /\ sconn = NilSnetConn
              /\ Len(engines) = 1
              /\ engines[1].fn = "discover.ListenUDP"
              /\ engines[1].conn = conn
              /\ engines[1].sconn = NilSnetConn
              /\ engines[1].AnnounceAddr = conn.local

\* ------------------------------------------------------------------------
\* C7
\* ------------------------------------------------------------------------
\* C7: no engine is ever started in a run in which an alternate-transport
\* step (address parse, stack initialization, path-aware bind) failed; such
\* a run never blocks as a running node.
C7_AltFailureAborts ==
    failed \cap AltFns /= {} =>
        /\ engines = <<>>
        /\ CallSet \cap EngineFns = {}
        /\ pc /= "select"

\* ------------------------------------------------------------------------
\* C8
\* ------------------------------------------------------------------------
\* C8: the configuration record of the legacy engine carries the string form
\* of the alternate address when an alternate endpoint is present and the
\* empty string when no alternate-network address was given; building it
\* without an alternate address does not fail and leaves the other fields as
\* they are (identity, announce address, restrictor).
C8_AlternateAnnounceAddress ==
    /\ pc /= "panic"
    /\ (pc = "legacy" \/ CallSet \cap LegacyFns /= {}) =>
          /\ cfg.AnnounceAddrSCION =
                (IF scionAddrStr = "" THEN "" ELSE SnetAddrString(scionAddr))
          /\ cfg.PrivateKey = nodeKey
          /\ cfg.AnnounceAddr = realaddr
          /\ cfg.NetRestrict = restrictList

\* ------------------------------------------------------------------------
\* C9
\* ------------------------------------------------------------------------
AltEndpointPresent == sconn /= NilSnetConn

\* C9: in LegacyMode the legacy engine is started with both sockets if and
\* only if an alternate endpoint is present, and with the primary socket
\* alone otherwise; the two legacy start paths are never both taken.
C9_LegacySockets ==
    ~runv5 =>
        /\ Cardinality(CallSet \cap LegacyFns) <= 1
        /\ \A i \in 1..Len(engines) :
              /\ engines[i].conn = conn /\ conn /= NilConn
              /\ engines[i].fn = "discover.ListenUDPSCION" <=> AltEndpointPresent
              /\ engines[i].fn = "discover.ListenUDP" <=> ~AltEndpointPresent
              /\ engines[i].sconn = sconn
        /\ Called("discover.ListenUDPSCION") => AltEndpointPresent
        /\ Called("discover.ListenUDP") => ~AltEndpointPresent

\* the legacy engine runs on both sockets
C9_Witness ==
    /\ ~runv5 /\ pc = "select" /\ AltEndpointPresent
    /\ Len(engines) = 1 /\ engines[1].fn = "discover.ListenUDPSCION"
    /\ engines[1].sconn = sconn /\ engines[1].conn = conn

\* ------------------------------------------------------------------------
\* C10
\* ------------------------------------------------------------------------
\* the steps of main
MainNext ==
    \/ NatParse \/ GenerateKey \/ MissingKey \/ ConflictingKey \/ LoadKeyFile
    \/ LoadKeyHex \/ WriteAddress \/ NetRestrict \/ ResolveAddr \/ ListenUDP
    \/ ScionParse \/ ScionInit \/ ScionListen \/ NatSpawn \/ NatExternalIP
    \/ StartTopic \/ BuildCfg \/ StartLegacySCION \/ StartLegacy

\* the announce address as the bound address and the external IP lookup
\* determine it
ExpectedAnnounce ==
    IF Called("nat.ExternalIP") /\ "nat.ExternalIP" \notin failed
    THEN [IP |-> IF natm = "any" THEN RouterExtIP ELSE "203.0.113.7",
          Port |-> conn.local.Port]
    ELSE conn.local

\* C10: the port-mapping task never aborts startup and never changes its
\* outcome.  A step of the task changes nothing main reads or writes; main
\* is never made to wait for it (whatever the state of the task, main's next
\* step is enabled until main has exited or blocks in select); no abort is
\* ever due to the mapping; and the engine is started with the announce
\* address that the bound address and the external IP lookup determine.
C10_MapTaskNeverAffectsStartup ==
    /\ [](/\ (pc \notin {"exit0", "fatal", "panic", "select"}) => ENABLED MainNext
          /\ pc = "fatal" => fatalMsg /= "nat.Map"
          /\ \A i \in 1..Len(engines) : engines[i].AnnounceAddr = ExpectedAnnounce)
    /\ [][mapTask # "none" /\ mapTask' # mapTask => UNCHANGED mainvars]_vars

\* an engine runs although the port mapping failed
C10_Witness ==
    /\ pc = "select" /\ mapTask = "failed"
    /\ Len(engines) = 1 /\ ~engines[1].err

\* ------------------------------------------------------------------------
\* C11
\* ------------------------------------------------------------------------
\* the number of times fn was called
CallCount(fn) == Cardinality({i \in 1..Len(calls) : calls[i] = fn})
\* main has executed the statements of lines 140-144
NatSpawnDone == realaddr /= NilUDPAddr
\* main has executed the statements of lines 140-149
NatAttachDone == NatSpawnDone /\ pc /= "extip"
BoundOnLoopback == conn /= NilConn /\ conn.local.IP = "127.0.0.1"

\* C11: with a NAT mechanism other than none, a socket bound to a loopback
\* address never has a port mapping registered (no nat.Map call, no mapping
\* task) while the external IP is still looked up; a socket bound to another
\* address has the mapping registered exactly once, for the bound port.
\* Without a NAT mechanism neither call is made.
C11_LoopbackSkipsMapping ==
    /\ CallCount("nat.Map") <= 1
    /\ (mapTask /= "none") <=> Called("nat.Map")
    /\ (natm /= NilNAT /\ BoundOnLoopback) =>
          /\ ~Called("nat.Map")
          /\ NatAttachDone => CallCount("nat.ExternalIP") = 1
    /\ (natm /= NilNAT /\ conn /= NilConn /\ ~BoundOnLoopback) =>
          /\ NatSpawnDone <=> CallCount("nat.Map") = 1
          /\ NatAttachDone => CallCount("nat.ExternalIP") = 1
    /\ natm = NilNAT => (~Called("nat.Map") /\ ~Called("nat.ExternalIP"))

\* bound on loopback with a NAT mechanism: external IP looked up, no mapping
C11_Witness ==
    /\ natm /= NilNAT /\ BoundOnLoopback
    /\ pc = "dispatch"
    /\ Called("nat.ExternalIP") /\ ~Called("nat.Map") /\ mapTask = "none"

\* ------------------------------------------------------------------------
\* C12
\* ------------------------------------------------------------------------
\* C12: the announce address handed to the engine is the bound local address
\* when the NAT mechanism is none or the external IP lookup fails, and the
\* external IP with the bound port when the lookup succeeds; its port is the
\* bound port in every case, and a failed lookup never aborts startup.
C12_AnnounceAddress ==
    /\ NatAttachDone =>
          /\ realaddr.Port = conn.local.Port
          /\ (natm = NilNAT \/ "nat.ExternalIP" \in failed) => realaddr = conn.local
          /\ (natm /= NilNAT /\ "nat.ExternalIP" \notin failed) =>
                /\ realaddr.IP \in {RouterExtIP, "203.0.113.7"}
                /\ natm = "extip:203.0.113.7" => realaddr.IP = "203.0.113.7"
    /\ \A i \in 1..Len(engines) :
          /\ engines[i].AnnounceAddr = realaddr
          /\ engines[i].AnnounceAddr.Port = conn.local.Port
          /\ engines[i].AnnounceAddr.Port /= 0
    /\ pc = "fatal" => fatalMsg /= "nat.ExternalIP"
    /\ "nat.ExternalIP" \in failed => pc \in {"dispatch", "legacy", "select", "fatal", "panic"}
    /\ ("nat.ExternalIP" \in failed /\ pc = "fatal") => fatalMsg \in EngineStartMsgs

\* the engine announces the external IP with the kernel-chosen bound port
C12_Witness ==
    /\ pc = "select" /\ Len(engines) = 1
    /\ listenAddr = "127.0.0.1:0"
    /\ engines[1].AnnounceAddr = [IP |-> RouterExtIP, Port |-> EphemeralPort]

\* ------------------------------------------------------------------------
\* C13
\* ------------------------------------------------------------------------
TransportFns == {"net.ResolveUDPAddr", "net.ListenUDP"} \cup AltFns

\* C13 as stated: a malformed netlist string always ends the process in a
\* fatal error, never in success, with no address resolution, bind or engine
\* start attempted.
C13_AsStated ==
    BadNetlist =>
        /\ pc \notin {"exit0", "select", "panic"}
        /\ CallSet \cap (TransportFns \cup EngineFns) = {}

\* C13 amended: with a malformed netlist string no address resolution, socket
\* bind or engine start is ever attempted: the netlist parser rejects it with
\* a fatal error, unless the run ended before the netlist step (in an earlier
\* fatal error or in one of the exit-success short cuts, generate key and
\* write address, which never parse the netlist).  No engine is started with
\* a nil netlist when a non-empty netlist string was given, and an empty
\* netlist string yields a nil netlist without a call of the parser.
C13_MalformedNetlistFatal ==
    /\ BadNetlist =>
          /\ pc \notin {"resolve", "listen", "scion", "scioninit", "scionlisten",
                        "natattach", "extip", "dispatch", "legacy", "select", "panic"}
          /\ CallSet \cap (TransportFns \cup EngineFns \cup NatFns) = {}
          /\ Called("netutil.ParseNetlist") =>
                (pc = "fatal" /\ fatalMsg = "-netrestrict" /\ restrictList = NilNetlist)
          /\ pc = "exit0" =>
                ((genKey /= "" \/ writeAddr) /\ ~Called("netutil.ParseNetlist"))
    /\ netrestrict /= "" =>
          \A i \in 1..Len(engines) : engines[i].NetRestrict /= NilNetlist
    /\ netrestrict = "" =>
          /\ ~Called("netutil.ParseNetlist")
          /\ restrictList = NilNetlist
          /\ \A i \in 1..Len(engines) : engines[i].NetRestrict = NilNetlist

\* the parser rejected the netlist and the process aborted
C13_Witness ==
    /\ BadNetlist /\ pc = "fatal" /\ fatalMsg = "-netrestrict"
    /\ calls[Len(calls)] = "netutil.ParseNetlist"

\* ------------------------------------------------------------------------
\* C14
\* ------------------------------------------------------------------------
\* C14: a malformed NAT descriptor is detected by the first step of main:
\* the process aborts with the -nat error and nothing else was called, no
\* address resolution, bind, alternate-transport step, port mapping or
\* external IP lookup.
C14_NatDescriptorEager ==
    BadNat =>
        /\ pc \in {"natparse", "fatal"}
        /\ pc = "fatal" => (fatalMsg = "-nat" /\ calls = <<"nat.Parse">>)
        /\ pc = "natparse" => calls = <<>>
        /\ CallSet \cap (TransportFns \cup NatFns \cup EngineFns) = {}
        /\ conn = NilConn /\ sconn = NilSnetConn /\ addr = NilUDPAddr
        /\ mapTask = "none"

\* the malformed descriptor was rejected although a key was to be generated
C14_Witness ==
    /\ BadNat /\ pc = "fatal" /\ fatalMsg = "-nat"
    /\ genKey /= "" /\ scionAddrStr /= ""

\* ------------------------------------------------------------------------
\* C15
\* ------------------------------------------------------------------------
MainStopped == pc \in {"select", "exit0", "fatal", "panic"}
MainStaysStopped == pc' = pc /\ UNCHANGED mainvars

\* C15: an engine start that succeeded leaves main blocked in select for
\* ever: no step of main is enabled, no exit state follows and nothing main
\* owns changes any more.  An engine start that failed leaves the process
\* aborted with that error, never blocked.  An exited process takes no step,
\* and no collaborator call is ever made a second time (nothing is retried).
C15_BlockOrAbort ==
    /\ [](/\ \A i \in 1..Len(engines) :
                IF engines[i].err
                THEN pc = "fatal" /\ fatalMsg = engines[i].fn
                ELSE pc = "select"
          /\ pc = "select" =>
                /\ ~ENABLED MainNext
                /\ Len(engines) = 1 /\ ~engines[1].err
          /\ Exited => ~ENABLED Next
          /\ \A i, j \in 1..Len(calls) : calls[i] = calls[j] => i = j)
    /\ [][MainStopped => MainStaysStopped]_vars

\* main blocks in select with the legacy engine running and the port mapped
C15_Witness ==
    /\ pc = "select" /\ mapTask = "mapped"
    /\ Len(engines) = 1 /\ ~engines[1].err /\ engines[1].fn = "discover.ListenUDP"

\* ------------------------------------------------------------------------
\* C16
\* ------------------------------------------------------------------------
IdentityLoaded ==
    /\ CallSet \cap {"crypto.LoadECDSA", "crypto.HexToECDSA"} /= {}
    /\ failed \cap {"crypto.LoadECDSA", "crypto.HexToECDSA"} = {}

\* C16: in write-address mode, once the identity is loaded the process prints
\* the fingerprint of that identity and exits with success; no netlist is
\* parsed, no socket is opened, no port mapping or external IP lookup is made
\* and no engine is started in that run.
C16_WriteAddressExits ==
    (writeAddr /\ IdentityLoaded) =>
        /\ pc \in {"writeaddr", "exit0"}
        /\ nodeKey /= NilKey
        /\ pc = "writeaddr" => stdout = <<>>
        /\ pc = "exit0" =>
              /\ stdout = <<"id:" \o nodeKey>>
              /\ calls[Len(calls)] = "discover.PubkeyID"
        /\ CallSet \cap (TransportFns \cup NatFns \cup EngineFns
                           \cup {"netutil.ParseNetlist"}) = {}
        /\ restrictList = NilNetlist /\ conn = NilConn /\ sconn = NilSnetConn
        /\ mapTask = "none" /\ engines = <<>>

\* the fingerprint was printed and the process exited, whatever else was set
C16_Witness ==
    /\ writeAddr /\ pc = "exit0" /\ stdout = <<"id:key(ab12)">>
    /\ netrestrict = "not-a-cidr" /\ natdesc = "any" /\ scionAddrStr /= ""

\* ------------------------------------------------------------------------
\* C17
\* ------------------------------------------------------------------------
\* what the flags other than -scion determine
KeyOfFlags     == IF nodeKeyHex /= "" THEN "key(ab12)" ELSE "key(" \o nodeKeyFile \o ")"
ConnOfFlags    == [local |-> BoundAddr(ResolveUDPAddr(listenAddr).addr)]
NetlistOfFlags == IF netrestrict = "" THEN NilNetlist ELSE ParseNetlist(netrestrict).list

\* C17: in TopicMode the topic engine is started with the primary socket,
\* the identity, the announce address, an empty network id and the
\* restrictor.  Each of these arguments is what the flags other than the
\* alternate-network address (and the external IP lookup) determine, so they
\* are the same with and without a valid alternate address; the alternate
\* socket and the alternate address are never handed to the topic engine,
\* and no legacy configuration record is built.
C17_TopicEngineArguments ==
    runv5 =>
        /\ cfg = NilCfg
        /\ \A i \in 1..Len(engines) :
              /\ engines[i].fn = "discv5.ListenUDP"
              /\ engines[i].conn = ConnOfFlags
              /\ engines[i].PrivateKey = KeyOfFlags
              /\ engines[i].AnnounceAddr = ExpectedAnnounce
              /\ engines[i].netid = ""
              /\ engines[i].NetRestrict = NetlistOfFlags
              /\ engines[i].sconn = NilSnetConn
              /\ engines[i].AnnounceAddrSCION = ""

\* the topic engine runs; a SCION socket is open but was not handed to it
C17_Witness ==
    /\ runv5 /\ pc = "select" /\ scionAddrStr /= "" /\ sconn /= NilSnetConn
    /\ restrictList /= NilNetlist
    /\ Len(engines) = 1 /\ engines[1].sconn = NilSnetConn

\* ------------------------------------------------------------------------
\* C18
\* ------------------------------------------------------------------------
\* main is past the SCION block of lines 120-138
AltSetupDone ==
    \/ pc \in {"natattach", "extip", "dispatch", "legacy", "select"}
    \/ NatSpawnDone

\* C18: from the end of the alternate-transport setup onward the alternate
\* endpoint is fully present or fully absent: the parsed address is non-nil
\* iff the SCION socket is non-nil iff the -scion string was non-empty, and
\* a present socket is bound to the parsed address.
C18_AltEndpointAllOrNothing ==
    AltSetupDone =>
        /\ (scionAddr /= NilSnetAddr) <=> (sconn /= NilSnetConn)
        /\ (sconn /= NilSnetConn) <=> (scionAddrStr /= "")
        /\ sconn /= NilSnetConn => sconn.laddr = scionAddr

\* at engine dispatch with the alternate endpoint fully present
C18_Witness ==
    /\ pc = "dispatch"
    /\ scionAddrStr /= "" /\ scionAddr /= NilSnetAddr /\ sconn /= NilSnetConn

\* ------------------------------------------------------------------------
\* C19
\* ------------------------------------------------------------------------
Idx(fn) == CHOOSE i \in 1..Len(calls) : calls[i] = fn
\* if g was called then f was called before it
Precedes(f, g) == Called(g) => (Called(f) /\ Idx(f) < Idx(g))

\* C19: an engine start is attempted only after the identity was loaded,
\* the netlist (if given) parsed, the listen address resolved and the primary
\* socket bound, the alternate socket (if requested) opened and the external
\* IP lookup (if there is a NAT mechanism) completed; the port-mapping task
\* is spawned only after the primary socket was bound and before any engine
\* start is attempted.
C19_StartupOrder ==
    /\ \A e \in EngineFns :
          /\ Precedes("crypto.LoadECDSA", e) \/ Precedes("crypto.HexToECDSA", e)
          /\ Called(e) => (nodeKey /= NilKey /\ conn /= NilConn)
          /\ netrestrict /= "" => Precedes("netutil.ParseNetlist", e)
          /\ Precedes("net.ResolveUDPAddr", e)
          /\ Precedes("net.ListenUDP", e)
          /\ scionAddrStr /= "" =>
                /\ Precedes("snet.AddrFromString", e)
                /\ Precedes("snet.ListenSCION", e)
                /\ Called(e) => sconn /= NilSnetConn
          /\ natdesc /= "none" => Precedes("nat.ExternalIP", e)
          /\ (Called(e) /\ Called("nat.Map")) => Idx("nat.Map") < Idx(e)
          /\ (Called(e) /\ natdesc /= "none" /\ ~BoundOnLoopback) => Called("nat.Map")
    /\ Precedes("net.ListenUDP", "nat.Map")
    /\ Called("nat.Map") => "net.ListenUDP" \notin failed
    /\ Precedes("nat.Map", "nat.ExternalIP") \/ ~Called("nat.Map")

\* an engine start with every optional step taken before it
C19_Witness ==
    /\ Called("discover.ListenUDPSCION")
    /\ Called("nat.Map") /\ Called("nat.ExternalIP")
    /\ Called("netutil.ParseNetlist") /\ Called("snet.ListenSCION")
    /\ calls[Len(calls)] = "discover.ListenUDPSCION"

====
